---- MODULE Spec2Model ----
(***************************************************************************)
(* Portable File Dialogs (portable-file-dialogs.h): the executor that      *)
(* supervises one helper process or one native asynchronous call, and the  *)
(* settings flags that cache which desktop helpers are installed.          *)
(*                                                                         *)
(* Spec      : one executor, its caller, and the unit of work it runs.     *)
(* SpecCache : callers constructing dialogs against the shared flags.      *)
(***************************************************************************)
EXTENDS Integers, Sequences, FiniteSets, TLC

\* Longest output a command writes, in bytes.
MaxOut == 3

\* Size of the read buffer of ready(); one read takes at most BUFSIZ - 1
\* bytes.  The platform's value is scaled down so that an output of MaxOut
\* bytes needs more than one read.
BUFSIZ == 3

\* The count of the caller's ready() calls saturates at this value.
MaxPolls == 2

\* The counts of probes, lookups and scans saturate at this value.
MaxCount == 2

\* The most window messages a native call sends to the calling thread.
MaxSends == 1

\* Process wait timeout, in milliseconds.
default_wait_timeout == 20

\* Initial value of m_exit_code, and the value start(command) resets it to.
SentinelCode == -1

Min(a, b) == IF a <= b THEN a ELSE b

Max(a, b) == IF a >= b THEN a ELSE b

RECURSIVE Bytes(_)
\* The output of n bytes: byte i has value i, so that a lost, repeated or
\* misplaced byte changes the sequence.
Bytes(n) == IF n = 0 THEN <<>> ELSE Append(Bytes(n - 1), n)

Outputs == { Bytes(n) : n \in 0..MaxOut }

ExitCodes == {0, 1}

\* Values MessageBoxW returns (IDOK, IDCANCEL).
ButtonIds == {1, 2}

Timeouts == {0, default_wait_timeout}

\* A command line: what the process writes to its standard output and the
\* code it exits with.
Commands == [out : Outputs, code : ExitCodes]

\* A native callable (Windows): the string it returns, whether it stores a
\* value through the exit_code pointer it is given, and the number of
\* window messages it sends to the calling thread, each of which it waits
\* to see dispatched: none for these.
Functions == [out : Outputs, code : ButtonIds, sets : BOOLEAN, sends : {0}]

\* The native callables that use a Windows API dialog attached to the
\* calling thread: they return the empty string (MessageBoxW) or a short
\* one (a path).
DialogFunctions ==
    [out : {Bytes(0), Bytes(1)}, code : ButtonIds, sets : BOOLEAN,
     sends : 1..MaxSends]

VARIABLES
    win32,          \* the build: TRUE for _WIN32, FALSE for the popen() build
    m_running,      \* executor::m_running
    m_stdout,       \* executor::m_stdout
    m_exit_code,    \* executor::m_exit_code
    m_stream,       \* executor::m_stream / m_pi: "null" or "open"
    m_future,       \* executor::m_future: "invalid" or "valid"
    proc,           \* the unit of work the executor last spawned
    call,           \* the executor operation the caller is in
    pc,             \* the caller's position in that operation
    timeout,        \* the timeout argument of the ready() calls of `call`
    arg,            \* the argument of the start() in progress
    ret,            \* what the last completed operation returned
    destroyed,      \* the executor's destructor has completed
    written,        \* history: the bytes the current run has produced
    lastSpawn,      \* history: "none", "ok" or "failed", the last spawn
    polled,         \* history: ready() calls of the caller since the last spawn
    restarted,      \* history: the last start() was called on a running task
    results,        \* history: the last two pairs result() returned since the last spawn
    everRan,        \* history: some spawn has succeeded
    priorOut,       \* history: m_stdout when the last start() began to spawn
    received,       \* history: what read() returned in the last ready()
    waited,         \* history: the bounded wait of the last ready(), in ms
    wasReady,       \* history: ready() has returned true since the last spawn
    releases,       \* history: times the handle of the last successful spawn was released
    flags,          \* settings::flags: the static array of flags
    installed,      \* the helpers `which` finds on this machine
    desktop,        \* the value of XDG_SESSION_DESKTOP
    concurrent,     \* TRUE when two callers run, FALSE for a single thread
    tpc,            \* each caller's position in dialog::dialog()
    tk,             \* each caller's next helper to probe, an index of Helpers
    probes,         \* history: probes of each helper since the last rescan()
    lookups,        \* history: dialogs constructed since the last rescan()
    scans,          \* history: scans completed
    rescanned,      \* history: rescan() has been called
    probed,         \* history: the last `which` of each helper ended with status 0
    msg,            \* a pfd::message: its choice, m_mappings, the user's answer, its result
    sel             \* a pfd::save_file or pfd::select_folder: the output, its string_result()

execVars == <<m_running, m_stdout, m_exit_code, m_stream, m_future>>

callVars == <<call, pc, timeout, arg, ret, destroyed>>

histVars == <<written, lastSpawn, polled, restarted, results, everRan, priorOut,
              received, waited, wasReady, releases>>

cacheVars == <<flags, installed, desktop, concurrent, tpc, tk,
               probes, lookups, scans, rescanned, probed>>

taskVars == <<win32, execVars, proc, callVars, histVars>>

vars == <<taskVars, cacheVars, msg, sel>>

\* enum class flag
Flags == {"is_scanned", "is_verbose",
          "has_zenity", "has_matedialog", "has_qarma", "has_kdialog"}

\* The helpers dialog::dialog() probes, in the order it probes them.
Helpers == <<"zenity", "matedialog", "qarma", "kdialog">>

HelperNames == {Helpers[i] : i \in 1..Len(Helpers)}

\* The flag that records the presence of helper h.
HasFlag(h) ==
    CASE h = "zenity" -> "has_zenity"
      [] h = "matedialog" -> "has_matedialog"
      [] h = "qarma" -> "has_qarma"
      [] h = "kdialog" -> "has_kdialog"

Desktops == {"unset", "gnome", "KDE"}

Callers == {"a", "b"}

\* No unit of work: before the first start(), and after a failed spawn.
NoProc ==
    [kind |-> "none", towrite |-> <<>>, pipe |-> <<>>, closed |-> TRUE,
     exited |-> TRUE, code |-> 0, sets |-> FALSE,
     sends |-> 0, waiting |-> FALSE, pumped |-> FALSE]

NoRet == [op |-> "none", val |-> FALSE, out |-> <<>>, code |-> 0]

NoArg == [kind |-> "none", out |-> <<>>, code |-> 0, sets |-> FALSE, sends |-> 0]

\* The process popen() / CreateProcessW() creates for a command.
SpawnedProcess(c) ==
    [kind |-> "proc", towrite |-> c.out, pipe |-> <<>>, closed |-> FALSE,
     exited |-> FALSE, code |-> c.code, sets |-> FALSE,
     sends |-> 0, waiting |-> FALSE, pumped |-> FALSE]

\* The asynchronous call std::async() creates for a callable.
SpawnedFunction(f) ==
    [kind |-> "fun", towrite |-> f.out, pipe |-> <<>>, closed |-> FALSE,
     exited |-> FALSE, code |-> f.code, sets |-> f.sets,
     sends |-> f.sends, waiting |-> FALSE, pumped |-> FALSE]

\* The executor of the first specification, never started.
TaskInit ==
    /\ m_running = FALSE
    /\ m_stdout = <<>>
    /\ m_exit_code = SentinelCode
    /\ m_stream = "null"
    /\ m_future = "invalid"
    /\ proc = NoProc
    /\ call = "none"
    /\ pc = "idle"
    /\ timeout = default_wait_timeout
    /\ arg = NoArg
    /\ ret = NoRet
    /\ destroyed = FALSE
    /\ written = <<>>
    /\ lastSpawn = "none"
    /\ polled = 0
    /\ restarted = FALSE
    /\ results = <<>>
    /\ everRan = FALSE
    /\ priorOut = <<>>
    /\ received = -2
    /\ waited = 0
    /\ wasReady = FALSE
    /\ releases = 0

\* The static flags are zero-initialised; no dialog is being constructed.
CacheInit ==
    /\ flags = [f \in Flags |-> FALSE]
    /\ tpc = [c \in Callers |-> "idle"]
    /\ tk = [c \in Callers |-> 1]
    /\ probes = [h \in HelperNames |-> 0]
    /\ lookups = 0
    /\ scans = 0
    /\ rescanned = FALSE
    /\ probed = [h \in HelperNames |-> FALSE]

\* No save_file or select_folder dialog has been constructed.
NoSelection ==
    [phase |-> "none", type |-> "save", out |-> <<>>, back |-> "none",
     result |-> <<>>]

\* No message has been constructed.
NoMessage ==
    [phase |-> "none", apple |-> FALSE, choice |-> "ok", mappings |-> <<>>,
     action |-> 0, ret |-> <<>>, exit_code |-> 0, button |-> "ok"]

Init ==
    /\ win32 \in BOOLEAN
    /\ TaskInit
    /\ CacheInit
    /\ msg = NoMessage
    /\ sel = NoSelection
    /\ installed = [h \in HelperNames |-> FALSE]
    /\ desktop = "unset"
    /\ concurrent = FALSE

(***************************************************************************)
(* Pieces of executor's code.                                              *)
(***************************************************************************)

\* read(m_fd, buf, BUFSIZ - 1) on the non-blocking pipe of process p: the
\* number of bytes taken, 0 at end of file (pipe empty and every write end
\* closed), -1 with errno EAGAIN when the pipe is empty but still open.
\* These are the outcomes a non-blocking read of a pipe has: it never
\* sleeps, so it is not interrupted (EINTR), and m_fd and buf are valid.
ReadCount(p) ==
    IF p.pipe # <<>> THEN Min(Len(p.pipe), BUFSIZ - 1)
    ELSE IF p.closed THEN 0
    ELSE -1

\* The contents of buf after that read.
ReadBuffer(p) == SubSeq(p.pipe, 1, Max(ReadCount(p), 0))

\* The pipe after that read.
ReadRest(p) == SubSeq(p.pipe, Max(ReadCount(p), 0) + 1, Len(p.pipe))

\* Variant: the EAGAIN case is not told apart from end of file.
WouldBlockIgnored(n) == FALSE

\* Variant: the end of output is taken for a read that would block.
WouldBlockOrEnd(n) == n <= 0

\* received == -1 && errno == EAGAIN
WouldBlock(n) == n = -1

\* Variant: a read of a single byte is not taken as data.
GotDataAboveOne(n) == n > 1

\* received > 0
GotData(n) == n > 0

\* Variant: the last byte of every chunk is dropped.
AppendedShort(out, buf, n) == out \o SubSeq(buf, 1, n - 1)

\* m_stdout += std::string(buf, received)
Appended(out, buf, n) == out \o SubSeq(buf, 1, n)

\* Variant: the status pclose() returns is not stored.
PcloseStatusDropped(code) == SentinelCode

\* Variant: the exit code is taken out of the wait status.
PcloseExitCode(code) == code

\* pclose(m_stream) of a process that exited with `code`: its wait status.
PcloseStatus(code) == code * 256

\* GetExitCodeProcess(): the exit code itself.
ProcessExitCode(code) == code

\* Variant: start(command) does not clear the output.
KeptOutput(out) == out

\* m_stdout.clear() in start(command)
ClearedOutput(out) == <<>>

\* Variant: start(command) sets m_running whether or not the spawn succeeded.
RunningAfterAnySpawn(ok) == TRUE

\* m_running after start(command): popen() / CreateProcessW() succeeded or
\* start() returned early.
RunningAfterSpawn(ok) == ok

\* Variant: result() moves the output out of the executor.
OutputMovedOut(out) == <<>>

\* m_stdout after result() has returned a copy of it.
OutputAfterResult(out) == out

\* Variant: stop() does not run the message pump.
NotDispatched(p) == p

\* while (PeekMessage(...)) { TranslateMessage(); DispatchMessage(); }
\* every pending message is dispatched, and a call that waited for one
\* waits no more.
Dispatched(p) == [p EXCEPT !.waiting = FALSE, !.pumped = p.pumped \/ p.waiting]

\* What an iteration of stop()'s loop leaves of the unit of work after a
\* ready() that returned false: the Windows build runs the message pump; a
\* direct ready() call does not.
AfterFalse(c, p) == IF c # "ready" THEN Dispatched(p) ELSE p

\* One more release of the handle (pclose(), CloseHandle(), future::get());
\* a second release of the same handle is remembered as such.
Released(n) == Min(n + 1, 2)

\* Variant: ready() returns true without looking at the work.
StoppedAssumed(running) == TRUE

\* Variant: ready() polls the work even when the task is not running.
RunningAssumed(running) == FALSE

\* if (!m_running) return true;
NotRunning(running) == ~running

(***************************************************************************)
(* How a ready() call ends, and what the operation that made it does next.  *)
(***************************************************************************)

\* The history of result(): the last two pairs it returned.
LastTwo(rs, r) == IF Len(rs) < 2 THEN Append(rs, r) ELSE <<rs[2], r>>

Returned(op, val, out, code) == [op |-> op, val |-> val, out |-> out, code |-> code]

\* ready() returns false.  A direct call returns to the caller; stop() (alone
\* or inside result(), start() and the destructor) calls ready() again.
ReturnFalse ==
    /\ IF call = "ready"
       THEN /\ call' = "none"
            /\ pc' = "idle"
            /\ ret' = Returned("ready", FALSE, <<>>, 0)
       ELSE /\ call' = call
            /\ pc' = "ready"
            /\ ret' = ret
    /\ UNCHANGED <<timeout, arg, destroyed, results, wasReady>>

\* ready() returns true with the executor holding out and code: the direct
\* call returns; stop() leaves its loop and its caller runs to its end, but
\* for start(), which goes on to spawn.
ReturnTrue(out, code) ==
    /\ m_running' = FALSE
    /\ m_exit_code' = code
    /\ m_stdout' = IF call = "result" THEN OutputAfterResult(out) ELSE out
    /\ call' = IF call \in {"start", "startfun"} THEN call ELSE "none"
    /\ pc' = IF call \in {"start", "startfun"} THEN "spawn" ELSE "idle"
    /\ ret' = CASE call = "ready" -> Returned("ready", TRUE, <<>>, 0)
                [] call = "stop" -> Returned("stop", TRUE, <<>>, 0)
                [] call = "result" -> Returned("result", TRUE, out, code)
                [] OTHER -> ret
    /\ destroyed' = (call = "dtor")
    /\ results' = IF call = "result" THEN LastTwo(results, <<out, code>>) ELSE results
    /\ wasReady' = TRUE
    /\ UNCHANGED <<timeout, arg>>

(***************************************************************************)
(* The caller enters an operation of the executor.                         *)
(***************************************************************************)

Enter(op, t, a) ==
    /\ call = "none"
    /\ ~destroyed
    /\ call' = op
    /\ pc' = "ready"
    /\ timeout' = t
    /\ arg' = a
    /\ ret' = NoRet
    /\ UNCHANGED <<win32, execVars, proc, destroyed>>
    /\ UNCHANGED <<written, lastSpawn, results, everRan, priorOut, received, waited>>
    /\ UNCHANGED <<wasReady, releases>>
    /\ UNCHANGED <<cacheVars, msg, sel>>

\* bool ready(int timeout)
CallReady(t) ==
    /\ Enter("ready", t, NoArg)
    /\ polled' = Min(polled + 1, MaxPolls)
    /\ UNCHANGED restarted

\* void stop()
CallStop ==
    /\ Enter("stop", default_wait_timeout, NoArg)
    /\ UNCHANGED <<polled, restarted>>

\* std::string result(int *exit_code)
CallResult ==
    /\ Enter("result", default_wait_timeout, NoArg)
    /\ UNCHANGED <<polled, restarted>>

\* void start(std::string const &command): stop() first
CallStart(c) ==
    /\ Enter("start", default_wait_timeout,
             [kind |-> "proc", out |-> c.out, code |-> c.code, sets |-> FALSE,
              sends |-> 0])
    /\ restarted' = m_running
    /\ UNCHANGED polled

\* void start(std::function<std::string(int *)> const &fun): stop() first
CallStartFun(f) ==
    /\ win32
    /\ Enter("startfun", default_wait_timeout,
             [kind |-> "fun", out |-> f.out, code |-> f.code, sets |-> f.sets,
              sends |-> f.sends])
    /\ restarted' = m_running
    /\ UNCHANGED polled

\* ~executor(): stop()
CallDestroy ==
    /\ Enter("dtor", default_wait_timeout, NoArg)
    /\ UNCHANGED <<polled, restarted>>

(***************************************************************************)
(* ready()                                                                 *)
(***************************************************************************)

\* The task is not running: ready() returns true at once.
ReadyNotRunning ==
    /\ pc = "ready"
    /\ NotRunning(m_running)
    /\ ReturnTrue(m_stdout, m_exit_code)
    /\ received' = -2
    /\ waited' = 0
    /\ UNCHANGED <<win32, m_stream, m_future, proc>>
    /\ UNCHANGED <<written, lastSpawn, polled, restarted, everRan, priorOut>>
    /\ UNCHANGED releases
    /\ UNCHANGED <<cacheVars, msg, sel>>

\* The popen() build: one read of the pipe.  EAGAIN sleeps for the timeout
\* and returns false; data is appended and ready() returns false; anything
\* else goes on to pclose(), which waits for the process to exit.
ReadyRead ==
    /\ pc = "ready"
    /\ ~NotRunning(m_running)
    /\ ~win32
    /\ LET n == ReadCount(proc) IN
        /\ received' = n
        /\ IF WouldBlock(n)
           THEN /\ waited' = timeout
                /\ ReturnFalse
                /\ UNCHANGED <<execVars, proc>>
           ELSE IF GotData(n)
           THEN /\ waited' = 0
                /\ m_stdout' = Appended(m_stdout, ReadBuffer(proc), n)
                /\ proc' = [proc EXCEPT !.pipe = ReadRest(proc)]
                /\ ReturnFalse
                /\ UNCHANGED <<m_running, m_exit_code, m_stream, m_future>>
           ELSE /\ waited' = 0
                /\ pc' = "pclose"
                /\ proc' = [proc EXCEPT !.pipe = ReadRest(proc)]
                /\ UNCHANGED <<execVars, call, timeout, arg, ret, destroyed, results>>
                /\ UNCHANGED wasReady
    /\ UNCHANGED <<win32, written, lastSpawn, polled, restarted, everRan, priorOut>>
    /\ UNCHANGED releases
    /\ UNCHANGED <<cacheVars, msg, sel>>

\* pclose() returns once the process has exited; then m_running = false and
\* ready() returns true.
PcloseReturns ==
    /\ pc = "pclose"
    /\ proc.exited
    /\ ReturnTrue(m_stdout, PcloseStatus(proc.code))
    /\ m_stream' = "null"
    /\ UNCHANGED <<win32, m_future, proc>>
    /\ UNCHANGED <<written, lastSpawn, polled, restarted, everRan, priorOut>>
    /\ UNCHANGED <<received, waited>>
    /\ releases' = Released(releases)
    /\ UNCHANGED <<cacheVars, msg, sel>>

\* The Windows build, m_future.valid(): wait_for(timeout), then get().
ReadyFuture ==
    /\ pc = "ready"
    /\ ~NotRunning(m_running)
    /\ win32
    /\ m_future = "valid"
    /\ received' = -2
    /\ IF ~proc.exited
       THEN /\ waited' = timeout
            /\ ReturnFalse
            /\ proc' = AfterFalse(call, proc)
            /\ UNCHANGED <<execVars>>
       ELSE /\ waited' = 0
            /\ ReturnTrue(proc.towrite, m_exit_code)
            /\ m_future' = "invalid"
            /\ UNCHANGED <<m_stream, proc>>
    /\ UNCHANGED <<win32, written, lastSpawn, polled, restarted, everRan, priorOut>>
    /\ releases' = IF proc.exited THEN Released(releases) ELSE releases
    /\ UNCHANGED <<cacheVars, msg, sel>>

\* The Windows build, a process: WaitForSingleObject(timeout), then
\* GetExitCodeProcess() and CloseHandle().
ReadyProcess ==
    /\ pc = "ready"
    /\ ~NotRunning(m_running)
    /\ win32
    /\ m_future # "valid"
    /\ received' = -2
    /\ IF ~proc.exited
       THEN /\ waited' = timeout
            /\ ReturnFalse
            /\ proc' = AfterFalse(call, proc)
            /\ UNCHANGED <<execVars>>
       ELSE /\ waited' = 0
            /\ ReturnTrue(m_stdout, ProcessExitCode(proc.code))
            /\ m_stream' = "null"
            /\ UNCHANGED <<m_future, proc>>
    /\ UNCHANGED <<win32, written, lastSpawn, polled, restarted, everRan, priorOut>>
    /\ releases' = IF proc.exited THEN Released(releases) ELSE releases
    /\ UNCHANGED <<cacheVars, msg, sel>>

(***************************************************************************)
(* start(), after its stop()                                               *)
(***************************************************************************)

\* start(command): clear the output, reset the exit code, spawn.  A failed
\* popen() / CreateProcessW() returns with m_running still false.
StartSpawn ==
    /\ pc = "spawn"
    /\ call = "start"
    /\ \E ok \in BOOLEAN :
        /\ m_stdout' = ClearedOutput(m_stdout)
        /\ m_exit_code' = SentinelCode
        /\ m_running' = RunningAfterSpawn(ok)
        /\ m_stream' = IF ok THEN "open" ELSE m_stream
        /\ proc' = IF ok THEN SpawnedProcess(arg) ELSE NoProc
        /\ lastSpawn' = IF ok THEN "ok" ELSE "failed"
        /\ everRan' = (everRan \/ ok)
        /\ releases' = IF ok THEN 0 ELSE releases
    /\ call' = "none"
    /\ pc' = "idle"
    /\ arg' = NoArg
    /\ written' = <<>>
    /\ polled' = 0
    /\ results' = <<>>
    /\ priorOut' = m_stdout
    /\ UNCHANGED <<win32, m_future, timeout, ret, destroyed, restarted, received, waited>>
    /\ wasReady' = FALSE
    /\ UNCHANGED <<cacheVars, msg, sel>>

\* start(fun): m_future = std::async(fun, &m_exit_code); m_running = true.
StartAsync ==
    /\ pc = "spawn"
    /\ call = "startfun"
    /\ m_future' = "valid"
    /\ m_running' = TRUE
    /\ proc' = SpawnedFunction(arg)
    /\ lastSpawn' = "ok"
    /\ everRan' = TRUE
    /\ call' = "none"
    /\ pc' = "idle"
    /\ arg' = NoArg
    /\ written' = <<>>
    /\ polled' = 0
    /\ results' = <<>>
    /\ priorOut' = m_stdout
    /\ UNCHANGED <<win32, m_stdout, m_exit_code, m_stream>>
    /\ UNCHANGED <<timeout, ret, destroyed, restarted, received, waited>>
    /\ wasReady' = FALSE
    /\ releases' = 0
    /\ UNCHANGED <<cacheVars, msg, sel>>

(***************************************************************************)
(* The unit of work                                                        *)
(***************************************************************************)

\* The process writes its next n bytes to its standard output.
ProcWrite(n) ==
    /\ ~win32
    /\ proc.kind = "proc"
    /\ ~proc.closed
    /\ n \in 1..Len(proc.towrite)
    /\ proc' = [proc EXCEPT !.pipe = proc.pipe \o SubSeq(proc.towrite, 1, n),
                            !.towrite = SubSeq(proc.towrite, n + 1, Len(proc.towrite))]
    /\ written' = written \o SubSeq(proc.towrite, 1, n)
    /\ UNCHANGED <<win32, execVars, callVars>>
    /\ UNCHANGED <<lastSpawn, polled, restarted, results, everRan, priorOut>>
    /\ UNCHANGED <<received, waited>>
    /\ UNCHANGED <<wasReady, releases>>
    /\ UNCHANGED <<cacheVars, msg, sel>>

\* The process closes its standard output, having written everything.
ProcClose ==
    /\ ~win32
    /\ proc.kind = "proc"
    /\ ~proc.closed
    /\ proc.towrite = <<>>
    /\ proc' = [proc EXCEPT !.closed = TRUE]
    /\ UNCHANGED <<win32, execVars, callVars, histVars>>
    /\ UNCHANGED <<cacheVars, msg, sel>>

\* The process exits.  In the popen() build its output is closed by then.
ProcExit ==
    /\ proc.kind = "proc"
    /\ ~proc.exited
    /\ win32 \/ proc.closed
    /\ proc' = [proc EXCEPT !.exited = TRUE, !.closed = TRUE]
    /\ UNCHANGED <<win32, execVars, callVars, histVars>>
    /\ UNCHANGED <<cacheVars, msg, sel>>

\* The dialog of the native call, attached to the calling thread, sends it
\* a message and waits until that thread has dispatched it.
FunSends ==
    /\ proc.kind = "fun"
    /\ ~proc.exited
    /\ ~proc.waiting
    /\ proc.sends > 0
    /\ proc' = [proc EXCEPT !.sends = proc.sends - 1, !.waiting = TRUE]
    /\ UNCHANGED <<win32, execVars, callVars, histVars>>
    /\ UNCHANGED <<cacheVars, msg, sel>>

\* The calling thread, outside the executor, runs its own message loop.
AppDispatches ==
    /\ call = "none"
    /\ proc.waiting
    /\ proc' = [proc EXCEPT !.waiting = FALSE]
    /\ UNCHANGED <<win32, execVars, callVars, histVars>>
    /\ UNCHANGED <<cacheVars, msg, sel>>

\* The callable stores its status through the pointer to m_exit_code.
FunSetsExitCode ==
    /\ proc.kind = "fun"
    /\ ~proc.exited
    /\ ~proc.waiting
    /\ proc.sets
    /\ m_exit_code' = proc.code
    /\ proc' = [proc EXCEPT !.sets = FALSE]
    /\ UNCHANGED <<win32, m_running, m_stdout, m_stream, m_future, callVars, histVars>>
    /\ UNCHANGED <<cacheVars, msg, sel>>

\* The callable returns its string: the future becomes ready.
FunReturns ==
    /\ proc.kind = "fun"
    /\ ~proc.exited
    /\ ~proc.waiting
    /\ proc.sends = 0
    /\ ~proc.sets
    /\ proc' = [proc EXCEPT !.exited = TRUE, !.closed = TRUE]
    /\ written' = proc.towrite
    /\ UNCHANGED <<win32, execVars, callVars>>
    /\ UNCHANGED <<lastSpawn, polled, restarted, results, everRan, priorOut>>
    /\ UNCHANGED <<received, waited>>
    /\ UNCHANGED <<wasReady, releases>>
    /\ UNCHANGED <<cacheVars, msg, sel>>

Next ==
    \/ \E t \in Timeouts : CallReady(t)
    \/ CallStop
    \/ CallResult
    \/ \E c \in Commands : CallStart(c)
    \/ \E f \in Functions : CallStartFun(f)
    \/ CallDestroy
    \/ ReadyNotRunning
    \/ ReadyRead
    \/ PcloseReturns
    \/ ReadyFuture
    \/ ReadyProcess
    \/ StartSpawn
    \/ StartAsync
    \/ \E n \in 1..MaxOut : ProcWrite(n)
    \/ ProcClose
    \/ ProcExit
    \/ FunSetsExitCode
    \/ FunReturns

Spec == Init /\ [][Next]_vars

\* The steps the calling thread takes inside an operation of the executor.
CallerStep ==
    \/ ReadyNotRunning
    \/ ReadyRead
    \/ PcloseReturns
    \/ ReadyFuture
    \/ ReadyProcess
    \/ StartSpawn
    \/ StartAsync

\* The thread that entered an operation goes on executing it.
SpecLive == Spec /\ WF_vars(CallerStep)

\* The steps of a native call: they need its dialog not to be waiting for
\* the calling thread.
FunStep ==
    \/ FunSends
    \/ FunSetsExitCode
    \/ FunReturns

\* The Windows build.
InitPump ==
    /\ win32 = TRUE
    /\ TaskInit
    /\ CacheInit
    /\ msg = NoMessage
    /\ sel = NoSelection
    /\ installed = [h \in HelperNames |-> FALSE]
    /\ desktop = "unset"
    /\ concurrent = FALSE

\* The operations of the executor on native calls with a dialog attached
\* to the calling thread.
NextPump ==
    \/ \E t \in Timeouts : CallReady(t)
    \/ CallStop
    \/ CallResult
    \/ \E f \in DialogFunctions : CallStartFun(f)
    \/ CallDestroy
    \/ ReadyNotRunning
    \/ ReadyFuture
    \/ StartAsync
    \/ FunSends
    \/ AppDispatches
    \/ FunSetsExitCode
    \/ FunReturns

\* The executor of the Windows build running native calls.  The thread that
\* entered an operation goes on executing it, and the user answers the
\* dialog of a native call that is able to proceed.
SpecPump ==
    /\ InitPump
    /\ [][NextPump]_vars
    /\ WF_vars(CallerStep)
    /\ WF_vars(FunStep)

\* errno values of a failed read other than EAGAIN.
ReadErrnos == {"EINTR", "EIO"}

\* received == -1 && errno == EAGAIN, with errno given
WouldBlockErrno(n, errno) == WouldBlock(n) /\ errno = "EAGAIN"

\* The popen() build: the read of ready() fails with an errno other than
\* EAGAIN.  Neither received == -1 && errno == EAGAIN nor received > 0
\* holds, and ready() goes on to pclose().
ReadyReadError ==
    /\ pc = "ready"
    /\ ~NotRunning(m_running)
    /\ ~win32
    /\ \E errno \in ReadErrnos :
        LET n == -1 IN
        /\ received' = n
        /\ IF WouldBlockErrno(n, errno)
           THEN /\ waited' = timeout
                /\ ReturnFalse
                /\ UNCHANGED <<execVars, proc>>
           ELSE IF GotData(n)
           THEN /\ waited' = 0
                /\ m_stdout' = Appended(m_stdout, ReadBuffer(proc), n)
                /\ ReturnFalse
                /\ UNCHANGED <<m_running, m_exit_code, m_stream, m_future, proc>>
           ELSE /\ waited' = 0
                /\ pc' = "pclose"
                /\ UNCHANGED <<execVars, proc>>
                /\ UNCHANGED <<call, timeout, arg, ret, destroyed, results, wasReady>>
    /\ UNCHANGED <<win32, written, lastSpawn, polled, restarted, everRan, priorOut>>
    /\ UNCHANGED releases
    /\ UNCHANGED <<cacheVars, msg, sel>>

NextReadError ==
    \/ Next
    \/ ReadyReadError

\* The executor on a system whose read() may fail.
SpecReadError == Init /\ [][NextReadError]_vars

(***************************************************************************)
(* settings and dialog::dialog(): the shared flags                         *)
(***************************************************************************)

Bump(n) == Min(n + 1, MaxCount)

\* Variant: the settings constructor clears is_scanned whatever resync is.
ScannedCleared(scanned, resync) == FALSE

\* Variant: the settings constructor ignores resync.
ScannedKept(scanned, resync) == scanned

\* settings(bool resync): flags(flag::is_scanned) &= !resync
ScannedAfterSettings(scanned, resync) == scanned /\ ~resync

\* The exit code of `which program`.
WhichExit(present) == IF present THEN 0 ELSE 1

\* check_program(): int exit_code = -1; start("which ...");
\* result(&exit_code).  exit_code stays at the sentinel when the spawn failed.
ProbeStatus(ok, present) ==
    IF RunningAfterSpawn(ok)
    THEN PcloseStatus(WhichExit(present))
    ELSE SentinelCode

\* check_program(): return exit_code == 0
CheckProgram(ok, present) == ProbeStatus(ok, present) = 0

\* Variant: the desktop's own helper is the one that is dropped.
PreferredSwapped(fl, xdg) ==
    IF fl["has_zenity"] /\ fl["has_kdialog"]
    THEN IF xdg = "gnome" THEN [fl EXCEPT !["has_zenity"] = FALSE]
         ELSE IF xdg = "KDE" THEN [fl EXCEPT !["has_kdialog"] = FALSE]
         ELSE fl
    ELSE fl

\* "If multiple helpers are available, try to default to the best one"
Preferred(fl, xdg) ==
    IF fl["has_zenity"] /\ fl["has_kdialog"]
    THEN IF xdg = "gnome" THEN [fl EXCEPT !["has_kdialog"] = FALSE]
         ELSE IF xdg = "KDE" THEN [fl EXCEPT !["has_zenity"] = FALSE]
         ELSE fl
    ELSE fl

\* Caller c may take a step.
Active(c) == c = "a" \/ concurrent

\* dialog::dialog() reads is_scanned: with the scan done the constructor
\* ends and the constructor of the derived class follows, otherwise it
\* goes on to the first probe.
DialogBegin(c) ==
    /\ Active(c)
    /\ tpc[c] = "idle"
    /\ IF flags["is_scanned"]
       THEN /\ lookups' = Bump(lookups)
            /\ tpc' = [tpc EXCEPT ![c] = "built"]
            /\ UNCHANGED tk
       ELSE /\ tpc' = [tpc EXCEPT ![c] = "probe"]
            /\ tk' = [tk EXCEPT ![c] = 1]
            /\ UNCHANGED lookups
    /\ UNCHANGED <<flags, installed, desktop, concurrent, probes, scans, rescanned>>
    /\ UNCHANGED probed
    /\ UNCHANGED <<taskVars, msg, sel>>

\* flags(has_...) = check_program(...): the caller's next probe runs to its
\* end on the caller's own executor and its answer is stored.
DialogProbe(c) ==
    /\ Active(c)
    /\ tpc[c] = "probe"
    /\ LET h == Helpers[tk[c]] IN
        /\ \E ok \in BOOLEAN :
              /\ flags' = [flags EXCEPT ![HasFlag(h)] = CheckProgram(ok, installed[h])]
              /\ probed' = [probed EXCEPT ![h] = (ProbeStatus(ok, installed[h]) = 0)]
        /\ probes' = [probes EXCEPT ![h] = Bump(probes[h])]
    /\ IF tk[c] = Len(Helpers)
       THEN /\ tpc' = [tpc EXCEPT ![c] = "finish"]
            /\ UNCHANGED tk
       ELSE /\ tk' = [tk EXCEPT ![c] = tk[c] + 1]
            /\ UNCHANGED tpc
    /\ UNCHANGED <<installed, desktop, concurrent, lookups, scans, rescanned>>
    /\ UNCHANGED <<taskVars, msg, sel>>

\* The end of the scan: the preference between zenity and kdialog, then
\* flags(flag::is_scanned) = true; the constructor of the derived class
\* follows.
DialogFinish(c) ==
    /\ Active(c)
    /\ tpc[c] = "finish"
    /\ flags' = [Preferred(flags, desktop) EXCEPT !["is_scanned"] = TRUE]
    /\ tpc' = [tpc EXCEPT ![c] = "built"]
    /\ lookups' = Bump(lookups)
    /\ scans' = Bump(scans)
    /\ UNCHANGED <<installed, desktop, concurrent, tk, probes, rescanned>>
    /\ UNCHANGED probed
    /\ UNCHANGED <<taskVars, msg, sel>>

\* Some other caller is inside a scan that has stored a flag and has not
\* set is_scanned yet.
ScanUnderWay(c) ==
    \E d \in Callers \ {c} :
        \/ tpc[d] = "finish"
        \/ tpc[d] = "probe" /\ tk[d] > 1

\* The constructor of the derived class (message, notify, file_dialog,
\* select_folder) reads the helper flags: desktop_helper(), is_zenity(),
\* is_kdialog(); the flags stay as they are.
DialogRead(c) ==
    /\ Active(c)
    /\ tpc[c] = "built"
    /\ tpc' = [tpc EXCEPT ![c] = "idle"]
    /\ UNCHANGED <<flags, installed, desktop, concurrent, tk>>
    /\ UNCHANGED <<probes, lookups, scans, rescanned, probed>>
    /\ UNCHANGED <<taskVars, msg, sel>>

\* settings::rescan(): settings(true)
Rescan(c) ==
    /\ Active(c)
    /\ tpc[c] = "idle"
    /\ flags' = [flags EXCEPT
                   !["is_scanned"] = ScannedAfterSettings(flags["is_scanned"], TRUE)]
    /\ probes' = [h \in HelperNames |-> 0]
    /\ lookups' = 0
    /\ rescanned' = TRUE
    /\ UNCHANGED <<installed, desktop, concurrent, tpc, tk, scans>>
    /\ UNCHANGED probed
    /\ UNCHANGED <<taskVars, msg, sel>>

\* settings::verbose(value): settings().flags(flag::is_verbose) = value
Verbose(c, value) ==
    /\ Active(c)
    /\ tpc[c] = "idle"
    /\ flags' = [flags EXCEPT
                   !["is_scanned"] = ScannedAfterSettings(flags["is_scanned"], FALSE),
                   !["is_verbose"] = value]
    /\ UNCHANGED <<installed, desktop, concurrent, tpc, tk,
                   probes, lookups, scans, rescanned, probed>>
    /\ UNCHANGED <<taskVars, msg, sel>>

\* The build that probes (not _WIN32), on any machine, with one or two callers.
InitCache ==
    /\ win32 = FALSE
    /\ TaskInit
    /\ CacheInit
    /\ msg = NoMessage
    /\ sel = NoSelection
    /\ installed \in [HelperNames -> BOOLEAN]
    /\ desktop \in Desktops
    /\ concurrent \in BOOLEAN

NextCache ==
    \/ \E c \in Callers : DialogBegin(c)
    \/ \E c \in Callers : DialogProbe(c)
    \/ \E c \in Callers : DialogFinish(c)
    \/ \E c \in Callers : DialogRead(c)
    \/ \E c \in Callers : Rescan(c)
    \/ \E c \in Callers, value \in BOOLEAN : Verbose(c, value)

SpecCache == InitCache /\ [][NextCache]_vars

(***************************************************************************)
(* dialog::dialog() and check_program() on the dialog's executor          *)
(***************************************************************************)

\* "which " + program + " 2>/dev/null": the path of a program that is
\* found, on one line, and nothing otherwise.
WhichCommand(present) ==
    [out |-> IF present THEN Bytes(1) ELSE <<>>, code |-> WhichExit(present)]

\* Variant: the scan ends at the first helper that is found.
ScanEndsAtHit(k, found) == k = Len(Helpers) \/ found

\* dialog::dialog(): the four check_program() calls follow one another
\* whatever they return.
ScanEnds(k, found) == k = Len(Helpers)

\* check_program(): m_async->start("which " + program + " 2>/dev/null"),
\* the start() of the executor entered by the constructor's thread.
CheckProgramStart(c) ==
    /\ Active(c)
    /\ tpc[c] = "probe"
    /\ call = "none"
    /\ ~destroyed
    /\ call' = "start"
    /\ pc' = "ready"
    /\ timeout' = default_wait_timeout
    /\ arg' = [kind |-> "proc", out |-> WhichCommand(installed[Helpers[tk[c]]]).out,
               code |-> WhichCommand(installed[Helpers[tk[c]]]).code,
               sets |-> FALSE, sends |-> 0]
    /\ ret' = NoRet
    /\ restarted' = m_running
    /\ tpc' = [tpc EXCEPT ![c] = "which"]
    /\ probes' = [probes EXCEPT ![Helpers[tk[c]]] = Bump(probes[Helpers[tk[c]]])]
    /\ UNCHANGED <<win32, execVars, proc, destroyed>>
    /\ UNCHANGED <<written, lastSpawn, polled, results, everRan, priorOut>>
    /\ UNCHANGED <<received, waited, wasReady, releases>>
    /\ UNCHANGED <<flags, installed, desktop, concurrent, tk, lookups, scans>>
    /\ UNCHANGED <<rescanned, probed, msg, sel>>

\* check_program(): m_async->result(&exit_code), once start() has returned.
CheckProgramResult(c) ==
    /\ Active(c)
    /\ tpc[c] = "which"
    /\ call = "none"
    /\ ~destroyed
    /\ call' = "result"
    /\ pc' = "ready"
    /\ timeout' = default_wait_timeout
    /\ arg' = NoArg
    /\ ret' = NoRet
    /\ tpc' = [tpc EXCEPT ![c] = "wait"]
    /\ UNCHANGED <<win32, execVars, proc, destroyed>>
    /\ UNCHANGED <<written, lastSpawn, polled, restarted, results, everRan, priorOut>>
    /\ UNCHANGED <<received, waited, wasReady, releases>>
    /\ UNCHANGED <<flags, installed, desktop, concurrent, tk, probes, lookups, scans>>
    /\ UNCHANGED <<rescanned, probed, msg, sel>>

\* check_program(): return exit_code == 0, stored in the flag of the helper
\* by dialog::dialog(), which goes on to the next helper or to the end of
\* the scan.
CheckProgramReturn(c) ==
    /\ Active(c)
    /\ tpc[c] = "wait"
    /\ call = "none"
    /\ ret.op = "result"
    /\ flags' = [flags EXCEPT ![HasFlag(Helpers[tk[c]])] = (ret.code = 0)]
    /\ probed' = [probed EXCEPT ![Helpers[tk[c]]] = (ret.code = 0)]
    /\ IF ScanEnds(tk[c], ret.code = 0)
       THEN /\ tpc' = [tpc EXCEPT ![c] = "finish"]
            /\ UNCHANGED tk
       ELSE /\ tpc' = [tpc EXCEPT ![c] = "probe"]
            /\ tk' = [tk EXCEPT ![c] = tk[c] + 1]
    /\ UNCHANGED <<installed, desktop, concurrent, probes, lookups, scans, rescanned>>
    /\ UNCHANGED <<taskVars, msg, sel>>

\* The steps of check_program() and of the executor it drives.
ProbeStep ==
    \/ CheckProgramStart("a")
    \/ CheckProgramResult("a")
    \/ CheckProgramReturn("a")
    \/ ReadyNotRunning
    \/ ReadyRead
    \/ PcloseReturns
    \/ StartSpawn
    \/ \E n \in 1..MaxOut : ProcWrite(n)
    \/ ProcClose
    \/ ProcExit

\* The build that probes, on any machine, with a single thread.
InitScan ==
    /\ win32 = FALSE
    /\ TaskInit
    /\ CacheInit
    /\ msg = NoMessage
    /\ sel = NoSelection
    /\ installed \in [HelperNames -> BOOLEAN]
    /\ desktop \in Desktops
    /\ concurrent = FALSE

\* Dialogs constructed one after the other by a single thread, each scan
\* running its probes on the executor of the dialog under construction
\* (not running when the constructor begins), with rescan() and verbose()
\* between two dialogs.
NextScan ==
    \/ DialogBegin("a")
    \/ ProbeStep
    \/ DialogFinish("a")
    \/ DialogRead("a")
    \/ Rescan("a")
    \/ \E value \in BOOLEAN : Verbose("a", value)

SpecScan == InitScan /\ [][NextScan]_vars

(***************************************************************************)
(* pfd::message: the command, the helper's answer, result()                *)
(***************************************************************************)

\* enum class choice
Choices == {"ok", "ok_cancel", "yes_no", "yes_no_cancel",
            "retry_cancel", "abort_retry_ignore"}

\* enum class button
Buttons == {"cancel", "ok", "yes", "no", "abort", "retry", "ignore"}

\* The text of a button, as the helpers print it and result() expects it.
Label(b) ==
    CASE b = "cancel" -> <<"C", "a", "n", "c", "e", "l">>
      [] b = "ok" -> <<"O", "K">>
      [] b = "yes" -> <<"Y", "e", "s">>
      [] b = "no" -> <<"N", "o">>
      [] b = "abort" -> <<"A", "b", "o", "r", "t">>
      [] b = "retry" -> <<"R", "e", "t", "r", "y">>
      [] b = "ignore" -> <<"I", "g", "n", "o", "r", "e">>

\* "Cancel\n", "OK\n", ...
LabelLine(b) == Label(b) \o <<"\n">>

\* osascript will say "button returned:Cancel\n"
ButtonReturned ==
    <<"b", "u", "t", "t", "o", "n", " ",
      "r", "e", "t", "u", "r", "n", "e", "d", ":">>

\* internal::ends_with(str, suffix)
EndsWith(str, suffix) ==
    /\ Len(suffix) <= Len(str)
    /\ SubSeq(str, Len(str) - Len(suffix) + 1, Len(str)) = suffix

\* settings::is_zenity()
IsZenity(fl) == fl["has_zenity"] \/ fl["has_matedialog"] \/ fl["has_qarma"]

\* settings::is_kdialog()
IsKdialog(fl) == fl["has_kdialog"]

\* Variant: kdialog comes before qarma.
DesktopHelperKdialogFirst(apple, fl) ==
    IF apple THEN "osascript"
    ELSE IF fl["has_zenity"] THEN "zenity"
    ELSE IF fl["has_matedialog"] THEN "matedialog"
    ELSE IF fl["has_kdialog"] THEN "kdialog"
    ELSE IF fl["has_qarma"] THEN "qarma"
    ELSE "echo"

\* dialog::desktop_helper(), compiled when _WIN32 is not defined
DesktopHelper(apple, fl) ==
    IF apple THEN "osascript"
    ELSE IF fl["has_zenity"] THEN "zenity"
    ELSE IF fl["has_matedialog"] THEN "matedialog"
    ELSE IF fl["has_qarma"] THEN "qarma"
    ELSE IF fl["has_kdialog"] THEN "kdialog"
    ELSE "echo"

\* The branch message::message() takes: the Windows build, osascript, a
\* helper of the zenity family, kdialog, or the bare command of
\* desktop_helper() when no helper was found, "echo".
Backend(w32, apple, fl) ==
    IF w32 THEN "win32"
    ELSE IF apple THEN "osascript"
    ELSE IF IsZenity(fl) THEN "zenity"
    ELSE IF IsKdialog(fl) THEN "kdialog"
    ELSE "echo"

\* The buttons the choice kind offers.
Offered(choice) ==
    CASE choice = "ok" -> {"ok"}
      [] choice = "ok_cancel" -> {"ok", "cancel"}
      [] choice = "yes_no" -> {"yes", "no"}
      [] choice = "yes_no_cancel" -> {"yes", "no", "cancel"}
      [] choice = "retry_cancel" -> {"retry", "cancel"}
      [] choice = "abort_retry_ignore" -> {"abort", "retry", "ignore"}

\* The buttons of the dialog the command shows, in the order of the
\* command: MB_... styles, osascript's buttons {...}, zenity's --ok-label /
\* --extra-button, kdialog's --msgbox / --yesno / --yesnocancel.  "echo"
\* shows nothing.
Shown(backend, choice) ==
    CASE backend = "echo" -> <<>>
      [] backend = "kdialog" ->
            (CASE choice = "ok" -> <<"ok">>
               [] choice = "ok_cancel" -> <<"ok", "cancel">>
               [] choice = "yes_no_cancel" -> <<"yes", "no", "cancel">>
               [] OTHER -> <<"yes", "no">>)
      [] backend = "zenity" ->
            (CASE choice = "ok" -> <<"ok">>
               [] choice = "ok_cancel" -> <<"ok", "cancel">>
               [] choice = "yes_no" -> <<"no", "yes">>
               [] choice = "yes_no_cancel" -> <<"no", "yes", "cancel">>
               [] choice = "retry_cancel" -> <<"retry", "cancel">>
               [] choice = "abort_retry_ignore" -> <<"abort", "retry", "ignore">>)
      [] OTHER ->
            (CASE choice = "ok" -> <<"ok">>
               [] choice = "ok_cancel" -> <<"ok", "cancel">>
               [] choice = "yes_no" -> <<"yes", "no">>
               [] choice = "yes_no_cancel" -> <<"yes", "no", "cancel">>
               [] choice = "retry_cancel" -> <<"retry", "cancel">>
               [] choice = "abort_retry_ignore" -> <<"abort", "retry", "ignore">>)

\* IDOK, IDCANCEL, IDABORT, IDRETRY, IDIGNORE, IDYES, IDNO
MessageBoxId(b) ==
    CASE b = "ok" -> 1
      [] b = "cancel" -> 2
      [] b = "abort" -> 3
      [] b = "retry" -> 4
      [] b = "ignore" -> 5
      [] b = "yes" -> 6
      [] b = "no" -> 7

\* osascript's `cancel button`
CancelButton(choice) ==
    CASE choice = "ok" -> "ok"
      [] choice = "yes_no" -> "no"
      [] choice = "abort_retry_ignore" -> "retry"
      [] OTHER -> "cancel"

\* m_mappings as message::message() fills it.
Mappings(backend, choice) ==
    CASE backend = "win32" ->
            [id \in {MessageBoxId(b) : b \in Buttons} |->
                CHOOSE b \in Buttons : MessageBoxId(b) = id]
      [] backend = "osascript" ->
            (256 :> (CASE choice = "ok" -> "ok"
                       [] choice = "yes_no" -> "no"
                       [] OTHER -> "cancel"))
      [] backend = "kdialog" /\ choice = "yes_no_cancel" -> (256 :> "no")
      [] OTHER -> <<>>

\* What the user can do with the dialog: press its a-th button, or (0)
\* close it without pressing one.  MessageBoxW can be closed only when it
\* has a Cancel button or OK alone; osascript's dialog has no close box.
Answers(backend, choice) ==
    LET shown == Shown(backend, choice) IN
    (1 .. Len(shown)) \cup
    (CASE backend = "win32" ->
              IF shown = <<"ok">> \/ \E i \in 1..Len(shown) : shown[i] = "cancel"
              THEN {0} ELSE {}
       [] backend = "osascript" -> {}
       [] OTHER -> {0})

\* The exit code and output of the helper (the value of MessageBoxW) for
\* answer a.
\*  - MessageBoxW returns the id of the button; closing is IDCANCEL, or IDOK
\*    when OK is the only button.
\*  - osascript prints "button returned:<label>\n" and exits with 0; the
\*    cancel button makes it exit with 1 and print nothing.
\*  - zenity exits with 0 for OK and 1 otherwise; with --switch it prints
\*    the label of the extra button pressed and exits with 1.
\*  - kdialog exits with 0, 1, 2 for its first, second, third button, and
\*    with 2 when a question is closed.
\*  - echo prints an empty line and exits with 0.
Reply(backend, choice, a) ==
    LET shown == Shown(backend, choice) IN
    CASE backend = "win32" ->
            [ret |-> <<>>,
             code |-> IF a > 0 THEN MessageBoxId(shown[a])
                      ELSE IF shown = <<"ok">> THEN MessageBoxId("ok")
                      ELSE MessageBoxId("cancel")]
      [] backend = "osascript" ->
            IF shown[a] = CancelButton(choice) /\ Len(shown) > 1
            THEN [ret |-> <<>>, code |-> 1]
            ELSE [ret |-> ButtonReturned \o LabelLine(shown[a]), code |-> 0]
      [] backend = "zenity" ->
            IF choice \in {"ok", "ok_cancel"}
            THEN [ret |-> <<>>, code |-> IF a = 1 THEN 0 ELSE 1]
            ELSE [ret |-> IF a > 0 THEN LabelLine(shown[a]) ELSE <<>>, code |-> 1]
      [] backend = "kdialog" ->
            [ret |-> <<>>,
             code |-> IF a > 0 THEN a - 1 ELSE IF choice = "ok" THEN 0 ELSE 2]
      [] OTHER -> [ret |-> <<"\n">>, code |-> 0]

\* Variant: the labels are looked for before the sign of the exit code.
ResultButtonByLabelFirst(exit_code, out, m_mappings) ==
    IF EndsWith(out, LabelLine("cancel")) THEN "cancel"
    ELSE IF EndsWith(out, LabelLine("ok")) THEN "ok"
    ELSE IF EndsWith(out, LabelLine("yes")) THEN "yes"
    ELSE IF EndsWith(out, LabelLine("no")) THEN "no"
    ELSE IF EndsWith(out, LabelLine("abort")) THEN "abort"
    ELSE IF EndsWith(out, LabelLine("retry")) THEN "retry"
    ELSE IF EndsWith(out, LabelLine("ignore")) THEN "ignore"
    ELSE IF exit_code < 0 THEN "cancel"
    ELSE IF exit_code \in DOMAIN m_mappings THEN m_mappings[exit_code]
    ELSE IF exit_code = 0 THEN "ok" ELSE "cancel"

\* message::result(), after m_async->result(&exit_code)
ResultButton(exit_code, out, m_mappings) ==
    IF exit_code < 0 \/ EndsWith(out, LabelLine("cancel")) THEN "cancel"
    ELSE IF EndsWith(out, LabelLine("ok")) THEN "ok"
    ELSE IF EndsWith(out, LabelLine("yes")) THEN "yes"
    ELSE IF EndsWith(out, LabelLine("no")) THEN "no"
    ELSE IF EndsWith(out, LabelLine("abort")) THEN "abort"
    ELSE IF EndsWith(out, LabelLine("retry")) THEN "retry"
    ELSE IF EndsWith(out, LabelLine("ignore")) THEN "ignore"
    ELSE IF exit_code \in DOMAIN m_mappings THEN m_mappings[exit_code]
    ELSE IF exit_code = 0 THEN "ok" ELSE "cancel"

\* The backend of the message under construction.
MessageBackend == Backend(win32, msg.apple, flags)

\* message::message(title, text, choice, icon): m_mappings is filled and
\* the command (the MessageBoxW call) is started.
MessageConstruct(choice) ==
    /\ msg.phase \in {"none", "done"}
    /\ msg' = [NoMessage EXCEPT
                 !.phase = "shown",
                 !.apple = msg.apple,
                 !.choice = choice,
                 !.mappings = Mappings(MessageBackend, choice)]
    /\ UNCHANGED <<taskVars, cacheVars, sel>>

\* The user answers and the helper exits: the executor will hand over the
\* helper's output and, in the popen() build, the status of pclose().
MessageAnswered(a) ==
    /\ msg.phase = "shown"
    /\ a \in Answers(MessageBackend, msg.choice)
    /\ LET reply == Reply(MessageBackend, msg.choice, a) IN
        msg' = [msg EXCEPT
                  !.phase = "answered",
                  !.action = a,
                  !.ret = reply.ret,
                  !.exit_code = IF win32 THEN reply.code
                                ELSE PcloseStatus(reply.code)]
    /\ UNCHANGED <<taskVars, cacheVars, sel>>

\* popen() failed in start(command): the executor hands over the empty
\* output and the exit code start() left, -1.
MessageUnstarted ==
    /\ msg.phase = "shown"
    /\ ~win32
    /\ msg' = [msg EXCEPT
                  !.phase = "answered",
                  !.action = 0,
                  !.ret = <<>>,
                  !.exit_code = SentinelCode]
    /\ UNCHANGED <<taskVars, cacheVars, sel>>

\* The user answers and pclose() fails (the child was reaped elsewhere, or
\* SIGCHLD is ignored): m_exit_code = pclose(m_stream) is -1 and the
\* helper's output has been captured.
MessageStatusLost(a) ==
    /\ msg.phase = "shown"
    /\ ~win32
    /\ a \in Answers(MessageBackend, msg.choice)
    /\ msg' = [msg EXCEPT
                  !.phase = "answered",
                  !.action = a,
                  !.ret = Reply(MessageBackend, msg.choice, a).ret,
                  !.exit_code = -1]
    /\ UNCHANGED <<taskVars, cacheVars, sel>>

\* button message::result()
MessageResult ==
    /\ msg.phase = "answered"
    /\ msg' = [msg EXCEPT
                 !.phase = "done",
                 !.button = ResultButton(msg.exit_code, msg.ret, msg.mappings)]
    /\ UNCHANGED <<taskVars, cacheVars, sel>>

\* Any build, after dialog::dialog() has run with any set of helpers
\* found: the probes are compiled under "#if !__APPLE && !_WIN32", that is
\* whenever _WIN32 is not defined, __APPLE being a macro no compiler
\* defines.
InitMessage ==
    /\ win32 \in BOOLEAN
    /\ TaskInit
    /\ msg \in {[NoMessage EXCEPT !.apple = ap] :
                   ap \in IF win32 THEN {FALSE} ELSE BOOLEAN}
    /\ sel = NoSelection
    /\ installed \in [HelperNames -> BOOLEAN]
    /\ win32 => installed = [h \in HelperNames |-> FALSE]
    /\ flags = [f \in Flags |->
                  IF f = "is_scanned" THEN TRUE
                  ELSE \E h \in HelperNames : f = HasFlag(h) /\ installed[h]]
    /\ probed = installed
    /\ probes = [h \in HelperNames |-> IF win32 THEN 0 ELSE 1]
    /\ desktop = "unset"
    /\ concurrent = FALSE
    /\ tpc = [c \in Callers |-> "idle"]
    /\ tk = [c \in Callers |-> 1]
    /\ lookups = 1
    /\ scans = 1
    /\ rescanned = FALSE

NextMessage ==
    \/ \E choice \in Choices : MessageConstruct(choice)
    \/ \E a \in 0..3 : MessageAnswered(a)
    \/ MessageUnstarted
    \/ \E a \in 0..3 : MessageStatusLost(a)
    \/ MessageResult

SpecMessage == InitMessage /\ [][NextMessage]_vars

(***************************************************************************)
(* pfd::save_file, pfd::select_folder: string_result()                     *)
(***************************************************************************)

\* The characters of an output: two that are not a newline, and the newline.
Chars == {"a", "b", "\n"}

\* The outputs an executor can hand over, up to MaxOut characters: nothing
\* (a cancelled dialog, a command that did not start), a path and a
\* newline, an empty line (echo), a path with newlines in it.
CapturedOutputs == UNION {[1..k -> Chars] : k \in 0..MaxOut}

\* What the function given to start() returns in the Windows build: a path,
\* in which a newline cannot occur.
ReturnedPaths == UNION {[1..k -> Chars \ {"\n"}] : k \in 0..MaxOut}

\* a - b in size_t: unsigned, it wraps.  The width is kept at 30 bits, far
\* above every length that occurs.
SizeMinus(a, b) == (a - b) % (2 ^ 30)

\* std::string::substr(pos, n), for pos <= size()
Substr(str, pos, n) == SubSeq(str, pos + 1, Min(pos + n, Len(str)))

\* What ret.back() can give for an empty ret, where it is undefined: the
\* value of memory outside the characters, a newline or not, or the end of
\* the program in a library built with assertions.
UndefinedBack == {"\n", "a", "abort"}

\* ret.back()
Backs(str) == IF str # <<>> THEN {str[Len(str)]} ELSE UndefinedBack

\* return ret.back() == '\n' ? ret.substr(0, ret.size() - 1) : ret;
StrippedResult(str, back) ==
    IF back = "\n" THEN Substr(str, 0, SizeMinus(Len(str), 1)) ELSE str

\* save_file(...) / select_folder(...): file_dialog(type, ...) starts the
\* helper or the native call.
SelectConstruct(type) ==
    /\ sel.phase \in {"none", "done"}
    /\ sel' = [NoSelection EXCEPT !.phase = "shown", !.type = type]
    /\ UNCHANGED <<taskVars, cacheVars, msg>>

\* The unit of work has ended (or never started) and the executor holds
\* its output.
SelectCaptured(out) ==
    /\ sel.phase = "shown"
    /\ out \in IF win32 THEN ReturnedPaths ELSE CapturedOutputs
    /\ sel' = [sel EXCEPT !.phase = "captured", !.out = out]
    /\ UNCHANGED <<taskVars, cacheVars, msg>>

\* result(): return string_result().  The Windows build returns
\* m_async->result() as it is.
SelectResult ==
    /\ sel.phase = "captured"
    /\ IF win32
       THEN sel' = [sel EXCEPT !.phase = "done", !.result = sel.out]
       ELSE \E back \in Backs(sel.out) :
               sel' = [sel EXCEPT
                         !.phase = IF back = "abort" THEN "aborted" ELSE "done",
                         !.back = back,
                         !.result = IF back = "abort" THEN <<>>
                                    ELSE StrippedResult(sel.out, back)]
    /\ UNCHANGED <<taskVars, cacheVars, msg>>

InitSelect ==
    /\ win32 \in BOOLEAN
    /\ TaskInit
    /\ CacheInit
    /\ msg = NoMessage
    /\ sel = NoSelection
    /\ installed = [h \in HelperNames |-> FALSE]
    /\ desktop = "unset"
    /\ concurrent = FALSE

NextSelect ==
    \/ \E type \in {"save", "folder"} : SelectConstruct(type)
    \/ \E out \in CapturedOutputs : SelectCaptured(out)
    \/ SelectResult

SpecSelect == InitSelect /\ [][NextSelect]_vars

(***************************************************************************)
(* Properties                                                              *)
(***************************************************************************)

IsPrefix(a, b) == Len(a) <= Len(b) /\ a = SubSeq(b, 1, Len(a))

\* Everything the command of the current run writes, from start to end.
CommandOutput == written \o proc.towrite

\* result() has just returned for a run that was spawned.
ResultReturned == call = "none" /\ ret.op = "result" /\ lastSpawn = "ok"

\* Idle, Running, Finished
TaskState ==
    IF m_running THEN "Running" ELSE IF everRan THEN "Finished" ELSE "Idle"

\* C1: in the popen() build, whatever the number of ready() polls made before
\* it, result() returns exactly the bytes the process wrote, in order, and
\* the process has by then written all of its output.
C1_ResultIsTheWholeOutput ==
    (~win32 /\ ResultReturned /\ proc.kind = "proc")
        => (ret.out = written /\ proc.towrite = <<>> /\ proc.pipe = <<>>)

\* An output longer than one read, returned after at least two polls.
C1_Witness ==
    /\ ~win32 /\ ResultReturned /\ proc.kind = "proc"
    /\ Len(ret.out) > BUFSIZ - 1
    /\ polled >= 2

\* C2: a ready() call made by the caller never waits for the process to
\* exit: it is never inside pclose() while the process is still running.
C2_ReadyNeverWaitsForExit ==
    (call = "ready" /\ pc = "pclose") => proc.exited

C6_SpawnFailureIsSilent ==
    (lastSpawn = "failed") =>
        /\ ~m_running /\ m_stdout = <<>> /\ m_exit_code = SentinelCode
        /\ (call = "none" /\ ret.op = "ready") => (ret.val /\ waited = 0)
        /\ (call = "none" /\ ret.op = "result") =>
               (ret.out = <<>> /\ ret.code = SentinelCode)

\* result() after a failed spawn that followed a run with output.
C6_Witness ==
    /\ lastSpawn = "failed"
    /\ call = "none" /\ ret.op = "result"
    /\ priorOut # <<>>

\* C7: on a task that is not running, ready(), stop() and result() return in
\* their first step, ready() with true and without waiting, and leave
\* m_running, m_stdout and m_exit_code as they are; two consecutive
\* result() calls of one run return the same pair.
C7_NotRunningIsNoOp ==
    /\ [](Len(results) = 2 => results[1] = results[2])
    /\ [][(pc = "ready" /\ ~m_running /\ call \in {"ready", "stop", "result"}) =>
            /\ call' = "none"
            /\ m_running' = m_running
            /\ m_stdout' = m_stdout
            /\ m_exit_code' = m_exit_code
            /\ (call = "ready") => (ret'.val /\ waited' = 0)
            /\ (call = "result") =>
                   (ret'.out = m_stdout /\ ret'.code = m_exit_code)]_vars

\* stop() has returned on a finished task after two result() calls.
C7_Witness ==
    /\ call = "none" /\ ret.op = "stop"
    /\ Len(results) = 2
    /\ results[1][1] # <<>>

\* C8: a command that writes nothing and exits with status 0 makes result()
\* return the empty output and status 0.
C8_EmptySuccess ==
    (ResultReturned /\ proc.kind = "proc" /\ CommandOutput = <<>> /\ proc.code = 0)
        => (ret.out = <<>> /\ ret.code = 0)

\* Such a result in the popen() build, after polls of the caller.
C8_Witness ==
    /\ ResultReturned /\ proc.kind = "proc" /\ CommandOutput = <<>> /\ proc.code = 0
    /\ ~win32
    /\ polled >= 1

\* C9: a ready() that takes bytes from the pipe appends exactly those bytes,
\* leaves the task running and returns false (stop() polls again); the task
\* stops running only in a ready() whose read returned 0 at end of output,
\* and that call appends nothing.
C9_DataThenOneMorePoll ==
    [][/\ (proc'.kind = proc.kind /\ Len(proc'.pipe) < Len(proc.pipe)) =>
            /\ m_running'
            /\ m_stdout' = m_stdout \o
                   SubSeq(proc.pipe, 1, Len(proc.pipe) - Len(proc'.pipe))
            /\ (call = "ready") => (call' = "none" /\ ~ret'.val)
            /\ (call # "ready") => (call' = call /\ pc' = "ready")
       /\ (~win32 /\ m_running /\ ~m_running') =>
            /\ received = 0
            /\ proc.pipe = <<>> /\ proc.closed
            /\ m_stdout' = m_stdout]_vars

\* The poll that drained the last chunk of a finished output returned false.
C9_Witness ==
    /\ call = "none" /\ ret.op = "ready" /\ ~ret.val
    /\ received > 0
    /\ m_running
    /\ proc.pipe = <<>> /\ proc.towrite = <<>> /\ proc.closed
    /\ m_stdout = written

\* C10: the state changes only Idle -> Running, Finished -> Running (both
\* at the spawn of start(), and only when the spawn succeeded) and
\* Running -> Finished (in ready(), when the work has ended and, for a pipe,
\* end of output was read); no step of the caller ends, closes or replaces
\* a unit of work that has not ended by itself.
C10_StateMachine ==
    [][/\ (TaskState' # TaskState) =>
            \/ /\ TaskState \in {"Idle", "Finished"}
               /\ TaskState' = "Running"
               /\ pc = "spawn"
               /\ lastSpawn' = "ok"
               /\ ~proc'.exited
            \/ /\ TaskState = "Running"
               /\ TaskState' = "Finished"
               /\ pc \in {"ready", "pclose"}
               /\ proc.exited
               /\ ~win32 => (proc.closed /\ proc.pipe = <<>> /\ proc.towrite = <<>>)
       /\ (~proc.exited /\ callVars' # callVars) =>
            /\ ~proc'.exited
            /\ proc'.kind = proc.kind
            /\ proc'.towrite = proc.towrite
            /\ proc'.closed = proc.closed]_vars

\* A second run is under way on a task that has finished a first one.
C10_Witness ==
    /\ TaskState = "Running"
    /\ priorOut # <<>>
    /\ written # <<>>

\* C4: with two callers and no rescan(), once a dialog has been constructed
\* and no constructor is in progress every helper has been probed exactly
\* once: a caller that finds a scan in progress waits for it.
C4_OneScanForConcurrentCallers ==
    (concurrent /\ ~rescanned /\ lookups >= 1 /\ \A c \in Callers : tpc[c] = "idle")
        => \A h \in HelperNames : probes[h] = 1

\* C5: with a single caller, no helper is probed more than once between two
\* rescan() calls, however many dialogs are constructed, and once a dialog
\* has been constructed after a rescan() (or after the program's start)
\* every helper has been probed once since then.
C5_RescanForcesOneNewScan ==
    (~concurrent) =>
        \A h \in HelperNames :
            /\ probes[h] <= 1
            /\ (lookups >= 1) => probes[h] = 1

\* Two dialogs constructed after a rescan() that followed a completed scan.
C5_Witness ==
    /\ ~concurrent
    /\ rescanned
    /\ scans >= 2
    /\ lookups >= 2
    /\ \A h \in HelperNames : probes[h] = 1

\* C11: every start(), of a command and of a function alike, leaves the
\* captured output empty and the status at the sentinel when the new run
\* begins.
C11_StartResetsOutputAndStatus ==
    [][(pc = "spawn" /\ pc' # "spawn") =>
           (m_stdout' = <<>> /\ m_exit_code' = SentinelCode)]_vars

\* C12: once the work of the current run has exited (its output closed),
\* a stop() or result() in progress returns; when either has returned the
\* task is not running, and result() has returned the output and status the
\* executor holds for that run; a stop() or result() entered on a running
\* task does not return while the work has not exited.
C12_StopReturnsOnceWorkEnded ==
    /\ ((call \in {"stop", "result"} /\ proc.exited) ~> (call = "none"))
    /\ []((call = "none" /\ ret.op \in {"stop", "result"}) => ~m_running)
    /\ []((call = "none" /\ ret.op = "result") =>
              (ret.out = m_stdout /\ ret.code = m_exit_code))
    /\ [][(call \in {"stop", "result"} /\ m_running /\ call' = "none") =>
              proc.exited]_vars

\* result() has returned the output of a run that wrote some, with no
\* ready() call of the caller before it: its own loop completed the run.
C12_Witness ==
    /\ ResultReturned
    /\ polled = 0
    /\ ~m_running
    /\ proc.exited
    /\ ret.out # <<>>

\* C13: a read of ready() that returns -1, with EAGAIN or with any other
\* errno, is "not ready yet" (such a read is a step taken at the start of
\* ready() that leaves the process as it is and the last read at -1): the
\* task keeps running with its output and status as they were, ready()
\* does not go on to pclose(), and a direct ready() returns false.
C13_ReadErrorIsNotReadyYet ==
    [][(pc = "ready" /\ ~win32 /\ m_running /\ received' = -1 /\ proc' = proc) =>
           /\ m_running'
           /\ pc' # "pclose"
           /\ m_stdout' = m_stdout
           /\ m_exit_code' = m_exit_code
           /\ (call = "ready") => (call' = "none" /\ ~ret'.val)]_vars

\* A scan has completed and no constructor is inside one.
ScanComplete ==
    /\ flags["is_scanned"]
    /\ \A c \in Callers : tpc[c] \notin {"probe", "finish"}

\* C14 as stated, for a single caller: after a scan the flag of every
\* helper is true exactly when the last probe of that helper ended with
\* status 0; no flag of a helper that is present is cleared.
C14_FlagIsProbeSuccess ==
    (~concurrent /\ ScanComplete) =>
        \A h \in HelperNames : flags[HasFlag(h)] = probed[h]

\* Helper h was found and its flag is cleared in favour of the other one:
\* kdialog under a gnome session, zenity under a KDE session, when both
\* were found.
DroppedForDesktop(h) ==
    /\ probed["zenity"] /\ probed["kdialog"]
    /\ \/ h = "kdialog" /\ desktop = "gnome"
       \/ h = "zenity" /\ desktop = "KDE"

\* C14 amended, for a single caller: after a scan the flag of every helper
\* is true exactly when the last probe of that helper ended with status 0,
\* except that with zenity and kdialog both found the flag of kdialog is
\* false under a gnome session and the flag of zenity is false under a KDE
\* session.
C14_FlagIsProbeSuccessButPreference ==
    (~concurrent /\ ScanComplete) =>
        \A h \in HelperNames :
            flags[HasFlag(h)] = (probed[h] /\ ~DroppedForDesktop(h))

\* A completed scan on a gnome session that found zenity and kdialog, and
\* another helper that is absent.
C14_Witness ==
    /\ ~concurrent
    /\ ScanComplete
    /\ desktop = "gnome"
    /\ probed["zenity"] /\ probed["kdialog"] /\ ~probed["qarma"]
    /\ flags["has_zenity"] /\ ~flags["has_kdialog"]
    /\ installed["qarma"] = FALSE /\ probes["qarma"] = 1

\* Caller c is at the point where the constructor of the derived class
\* reads the helper flags.
ReadsFlags(c) == Active(c) /\ tpc[c] = "built"

\* C15: whenever a caller reads the helper flags, is_scanned is true and no
\* other caller is inside a scan that has stored some of the flags and not
\* yet completed: the flags read are those of one completed scan.
C15_ReadsOneCompletedScan ==
    \A c \in Callers :
        ReadsFlags(c) => (flags["is_scanned"] /\ ~ScanUnderWay(c))

\* C16: whatever the choice kind, the backend and the user's answer,
\* message::result() returns one of the buttons that the choice kind
\* offers, or cancel; for yes_no_cancel it returns yes, no or cancel.
C16_ButtonIsOffered ==
    (msg.phase = "done") =>
        msg.button \in Offered(msg.choice) \cup {"cancel"}

\* C17: once ready() has returned true for a run the task stays not running
\* until the next spawn; every later ready() returns true, and every later
\* ready(), stop() or result() returns in one step that neither reads nor
\* waits nor releases anything and leaves the process, the output and the
\* status as they are; and whenever result() returns, ready() has returned
\* true for the run and its work has ended, whether or not the caller
\* polled before.
C17_PollThenResult ==
    /\ [](wasReady => ~m_running)
    /\ []((wasReady /\ call = "none" /\ ret.op = "ready") => ret.val)
    /\ []((call = "none" /\ ret.op = "result") => (wasReady /\ proc.exited))
    /\ [][(wasReady /\ pc = "ready" /\ call \in {"ready", "stop", "result"}) =>
            /\ call' = "none"
            /\ proc' = proc
            /\ received' = -2 /\ waited' = 0
            /\ releases' = releases
            /\ m_stdout' = m_stdout /\ m_exit_code' = m_exit_code
            /\ (call = "result") =>
                   (ret'.out = m_stdout /\ ret'.code = m_exit_code)]_vars

\* In the popen() build, result() has returned the output of a run without
\* a read: polls of the caller had already seen the run finish.
C17_Witness ==
    /\ ~win32 /\ ResultReturned
    /\ polled >= 2
    /\ received = -2
    /\ ret.out # <<>>
    /\ Len(results) = 1

\* The executor holds a handle: the stream of popen() or the process
\* handles of CreateProcessW(), or the shared state of the future.
Held == m_stream = "open" \/ m_future = "valid"

\* C18: the executor holds a handle exactly while the task is running; the
\* handle is acquired only by a spawn of start() that succeeds and released
\* only in the step of ready() that ends the run; it is never released
\* twice, never released when none was acquired, released once when the
\* run has finished, and not held once the executor is destroyed.
C18_HandleHeldWhileRunning ==
    /\ [](m_running <=> Held)
    /\ [](releases <= 1)
    /\ [](~everRan => releases = 0)
    /\ [](Held => releases = 0)
    /\ []((everRan /\ ~m_running) => releases = 1)
    /\ [](destroyed => ~Held)
    /\ [][/\ (releases' # releases /\ releases' >= 1) =>
               (m_running /\ ~m_running' /\ pc \in {"ready", "pclose"})
          /\ (~Held /\ Held') => (pc = "spawn" /\ lastSpawn' = "ok")
          /\ (Held /\ ~Held') => releases' = 1]_vars

\* The executor was destroyed while its second run was under way: the
\* destructor ended the run and its handle was released once.
C18_Witness ==
    /\ destroyed
    /\ lastSpawn = "ok"
    /\ priorOut # <<>>
    /\ written # <<>>
    /\ releases = 1
    /\ ~Held

\* C19: in the Windows build every iteration of stop()'s loop whose ready()
\* returned false leaves no message of the native call undispatched, and a
\* stop() or result() on a native call that the user answers whenever its
\* dialog is able to proceed returns.
C19_StopRunsTheMessagePump ==
    /\ ((win32 /\ call \in {"stop", "result"} /\ proc.kind = "fun")
            ~> (call = "none"))
    /\ [][(/\ win32 /\ pc = "ready" /\ call \notin {"none", "ready"}
           /\ m_running /\ m_running' /\ pc' = "ready"
           /\ waited' = timeout
           /\ proc'.sends = proc.sends /\ proc'.exited = proc.exited
           /\ m_exit_code' = m_exit_code)
              => ~proc'.waiting]_vars

\* result() has returned for a native call whose dialog waited for a
\* message that the loop of stop() dispatched.
C19_Witness ==
    /\ win32 /\ ResultReturned
    /\ proc.kind = "fun"
    /\ proc.pumped
    /\ proc.sends = 0

Scanning == tpc["a"] \in {"probe", "which", "wait"}

\* The probes started since the scan began are those of the first n
\* helpers of the fixed order, once each.
ProbedUpTo(n) ==
    \A i \in 1..Len(Helpers) :
        probes[Helpers[i]] = IF i <= n THEN 1 ELSE 0

\* C21: a scan probes zenity, matedialog, qarma, kdialog in that order; when
\* the next probe is about to start the task of the previous one is not
\* running; is_scanned is true only after all four helpers were probed,
\* whatever the earlier probes found, and with no probe task running.
C21_ProbesInOrderToTheEnd ==
    /\ (Scanning /\ tpc["a"] = "probe") =>
           (ProbedUpTo(tk["a"] - 1) /\ ~m_running /\ ~flags["is_scanned"])
    /\ (Scanning /\ tpc["a"] # "probe") =>
           (ProbedUpTo(tk["a"]) /\ ~flags["is_scanned"])
    /\ tpc["a"] = "finish" =>
           (ProbedUpTo(Len(Helpers)) /\ ~m_running /\ ~flags["is_scanned"])
    /\ flags["is_scanned"] =>
           (ProbedUpTo(Len(Helpers)) /\ ~m_running /\ call = "none")

\* A scan forced by rescan() has completed on a machine where the first
\* helper is found: the three others were probed all the same.
C21_Witness ==
    /\ flags["is_scanned"]
    /\ rescanned
    /\ scans >= 2
    /\ installed["zenity"] /\ probed["zenity"]
    /\ ProbedUpTo(Len(Helpers))
    /\ lastSpawn = "ok"
    /\ ret.op = "result"

\* C22: in the build that selects a helper by the flags (neither _WIN32
\* nor __APPLE__), for every combination of the four flags the command of
\* a constructed dialog begins with the first helper present in the order
\* zenity, matedialog, qarma, kdialog, and with "echo" when none is;
\* is_zenity() holds exactly when that name is zenity, matedialog or qarma,
\* and the kdialog branch is taken exactly when it is kdialog.  With
\* __APPLE__ the name is osascript and the osascript branch is taken,
\* whatever the flags.
C22_HelperAndSyntaxAgree ==
    (msg.phase # "none" /\ ~win32) =>
        LET name == DesktopHelper(msg.apple, flags)
            present == {i \in 1..Len(Helpers) : flags[HasFlag(Helpers[i])]}
            first == IF present = {} THEN "echo"
                     ELSE Helpers[CHOOSE i \in present : \A j \in present : i <= j]
        IN  IF msg.apple
            THEN name = "osascript" /\ MessageBackend = "osascript"
            ELSE /\ name = first
                 /\ IsZenity(flags) <=> name \in {"zenity", "matedialog", "qarma"}
                 /\ (MessageBackend = "zenity") <=> IsZenity(flags)
                 /\ (MessageBackend = "kdialog") <=> name = "kdialog"
                 /\ (MessageBackend = "echo") <=> name = "echo"

\* A dialog constructed with qarma and kdialog found, zenity and matedialog
\* not: the command is qarma's, in zenity's syntax.
C22_Witness ==
    /\ msg.phase = "shown"
    /\ ~win32 /\ ~msg.apple
    /\ ~flags["has_zenity"] /\ ~flags["has_matedialog"]
    /\ flags["has_qarma"] /\ flags["has_kdialog"]
    /\ DesktopHelper(msg.apple, flags) = "qarma"
    /\ MessageBackend = "zenity"

\* C23: a rescan() step leaves is_scanned false and every other flag as it
\* was, and runs nothing: the executor, its process, the helpers and the
\* constructors' positions are unchanged; a verbose(value) step sets
\* is_verbose to value and leaves is_scanned and every helper flag, and
\* all the rest, as they were.
C23_RescanAndVerboseFrame ==
    [][/\ (\E c \in Callers : Rescan(c)) =>
             /\ flags' = [flags EXCEPT !["is_scanned"] = FALSE]
             /\ UNCHANGED <<taskVars, installed, desktop, tpc, tk, probed, scans>>
       /\ \A value \in BOOLEAN :
             (\E c \in Callers : Verbose(c, value)) =>
                 /\ flags' = [flags EXCEPT !["is_verbose"] = value]
                 /\ UNCHANGED <<taskVars, installed, desktop, tpc, tk, probed>>
                 /\ UNCHANGED <<probes, lookups, scans>>]_vars

\* rescan() was called after a scan that found zenity and after
\* verbose(true): is_scanned is false, has_zenity and is_verbose are still
\* true, and no probe has been run since.
C23_Witness ==
    /\ rescanned
    /\ scans >= 1
    /\ tpc["a"] = "idle"
    /\ ~flags["is_scanned"]
    /\ flags["has_zenity"] /\ flags["is_verbose"]
    /\ \A h \in HelperNames : probes[h] = 0
    /\ ~m_running

\* C24: but for the step of start() that spawns the next run, every step
\* leaves m_stdout a prefix of its next value, and a step that changes
\* m_stdout is a step of ready() taken while the task is running.
C24_OutputIsAppendOnly ==
    [][(pc # "spawn") =>
          /\ IsPrefix(m_stdout, m_stdout')
          /\ (m_stdout' # m_stdout) => (pc = "ready" /\ m_running)]_vars

\* C25: the destructor completes only in a state where the task is not
\* running, its handle is released and the work the last spawn started has
\* ended; and no step the destructor takes ends the process or closes its
\* output: the process ends by itself.
C25_DestructorWaitsAndNeverKills ==
    [][/\ (destroyed' /\ ~destroyed) =>
             /\ call = "dtor"
             /\ ~m_running' /\ ~Held'
             /\ (lastSpawn = "ok") => proc'.exited
       /\ (call = "dtor" /\ CallerStep) =>
             /\ proc'.exited = proc.exited
             /\ proc'.closed = proc.closed
             /\ proc'.towrite = proc.towrite]_vars

\* An executor destroyed while its process was running, never asked for
\* its result: the destructor's own ready() read the end of the output
\* and waited in pclose() for the process, which had written two bytes.
C25_Witness ==
    /\ destroyed
    /\ ~win32
    /\ lastSpawn = "ok"
    /\ polled = 0 /\ results = <<>>
    /\ received = 0
    /\ proc.exited
    /\ m_stdout = Bytes(2)
    /\ m_exit_code = PcloseStatus(1)

\* C26: message::result() returns cancel whenever the exit code the
\* executor hands over is negative, whatever the choice kind, the backend
\* and the captured output.
C26_NegativeStatusIsCancel ==
    (msg.phase = "done" /\ msg.exit_code < 0) => msg.button = "cancel"

\* result() of a yes_no message whose helper printed the label of a button
\* other than cancel and whose exit code was lost: cancel.
C26_Witness ==
    /\ msg.phase = "done"
    /\ msg.exit_code = SentinelCode
    /\ msg.choice = "yes_no"
    /\ EndsWith(msg.ret, LabelLine("yes"))
    /\ msg.button = "cancel"

\* C27: whenever result() of a save_file or select_folder has been called
\* on a captured output, it has returned, with the output less its last
\* character when that is a newline and the output itself otherwise, and
\* for an empty output no character was looked at.
C27_StripsOneNewline ==
    (sel.phase \in {"done", "aborted"}) =>
        /\ sel.phase = "done"
        /\ sel.result = IF sel.out # <<>> /\ sel.out[Len(sel.out)] = "\n"
                        THEN SubSeq(sel.out, 1, Len(sel.out) - 1)
                        ELSE sel.out
        /\ (sel.out = <<>>) => sel.back = "none"

====
